---- MODULE Spec2Model ----
(***************************************************************************)
(* Model of components/catalog-page.tsx: the CatalogPage component's       *)
(* state, its load effect (loadData, polling, cleanup) and the derived     *)
(* values filteredProducts, categories and availableBrands.                *)
(*                                                                         *)
(* JavaScript strings that the code inspects character by character (sku,  *)
(* nombre, nivelDeJuego, año, precio3, searchTerm) are sequences of        *)
(* one-character strings; categoria and marca, which the code only         *)
(* compares and tests for truthiness, are TLA+ strings.                    *)
(***************************************************************************)
EXTENDS Integers, Sequences, FiniteSets, TLC

VARIABLES
    products,          \* useState<Product[]>([])
    searchTerm,        \* useState("")
    selectedCategory,  \* useState("Todos")
    selectedBrand,     \* useState("Todos")
    loading,           \* useState(true)
    showOutOfStock,    \* useState(false)
    priceSort,         \* useState<PriceSortOrder>("default")
    accessoryCategories, \* what useCart().isMinQuantityAccessory answers true for
    autoRefreshMs,     \* the value the build gives AUTO_REFRESH_MS
    phase,             \* "init" (rendered, effect not run), "mounted", "unmounted"
    cancelled,         \* the effect closure's  let cancelled
    intervalId,        \* the effect closure's  let intervalId (0 models null)
    calls,             \* the loadData calls, in the order they were started,
                       \* each with its argument and its state
    fetched,           \* history: the productsData behind the current products
    log                \* history: completions of loadData calls, in order

vars == <<products, searchTerm, selectedCategory, selectedBrand, loading,
          showOutOfStock, priceSort, accessoryCategories, autoRefreshMs,
          phase, cancelled, intervalId, calls, fetched, log>>

filterVars == <<searchTerm, selectedCategory, selectedBrand, showOutOfStock, priceSort>>
effectVars == <<autoRefreshMs, phase, cancelled, intervalId, calls, fetched, log>>

----------------------------------------------------------------------------
(* Bounds *)

MaxCalls == 2        \* loadData calls started in one behaviour
MaxRows == 2         \* rows of a snapshot the data source returns
MaxProducts == 3     \* products of the list the filter specification starts from
MaxSearchLen == 3    \* characters of a typed search text
MaxPriceLen == 4     \* characters of a raw price string

----------------------------------------------------------------------------
(* Sequence helpers *)

Range(s) == {s[i] : i \in 1..Len(s)}

SeqsUpTo(S, n) == UNION {[1..k -> S] : k \in 0..n}

Count(s, x) == Cardinality({i \in 1..Len(s) : s[i] = x})

----------------------------------------------------------------------------
(* JavaScript values *)

\* A value of the stock column: a finite number v, NaN, +-Infinity, a string
\* or undefined (absent).
JsNum(v) == [kind |-> "number", v |-> v]
JsNaN == [kind |-> "NaN", v |-> 0]
JsInf == [kind |-> "Infinity", v |-> 0]
JsNegInf == [kind |-> "-Infinity", v |-> 0]
JsStr == [kind |-> "string", v |-> 0]
JsUndefined == [kind |-> "undefined", v |-> 0]

\* typeof x === "number"
TypeofNumber(x) == x.kind \in {"number", "NaN", "Infinity", "-Infinity"}

\* isNaN(x) for x with typeof "number"
IsNaN(x) == x.kind = "NaN"

\* x > 0 for x with typeof "number"
GreaterThanZero(x) == \/ x.kind = "Infinity"
                      \/ x.kind = "number" /\ x.v > 0

\* A raw price: a string (sequence of characters) or a number.
PriceStr(s) == [t |-> "string", s |-> s, n |-> 0]
PriceNum(n) == [t |-> "number", s |-> <<>>, n |-> n]

----------------------------------------------------------------------------
(* String functions *)

IsSpace(c) == c \in {" ", "\t"}

Digits == <<"0", "1", "2", "3", "4", "5", "6", "7", "8", "9">>
IsDigit(c) == \E d \in 1..10 : Digits[d] = c
DigitVal(c) == (CHOOSE d \in 1..10 : Digits[d] = c) - 1

\* String.prototype.toLowerCase, on the letters the model's texts use
LowerChar(c) ==
    CASE c = "A" -> "a"
      [] c = "B" -> "b"
      [] c = "P" -> "p"
      [] c = "X" -> "x"
      [] OTHER -> c

toLowerCase(s) == [i \in 1..Len(s) |-> LowerChar(s[i])]

RECURSIVE TrimStart(_)
TrimStart(s) == IF s # <<>> /\ IsSpace(Head(s)) THEN TrimStart(Tail(s)) ELSE s

RECURSIVE TrimEnd(_)
TrimEnd(s) == IF s # <<>> /\ IsSpace(s[Len(s)]) THEN TrimEnd(SubSeq(s, 1, Len(s) - 1)) ELSE s

\* String.prototype.trim
trim(s) == TrimEnd(TrimStart(s))

\* s.split(/\s+/): the pieces between maximal runs of white space; a leading
\* or trailing run leaves an empty piece, and "" splits into [""].
RECURSIVE SplitFrom(_, _)
SplitFrom(s, piece) ==
    IF s = <<>> THEN <<piece>>
    ELSE IF IsSpace(Head(s)) THEN <<piece>> \o SplitFrom(TrimStart(s), <<>>)
         ELSE SplitFrom(Tail(s), Append(piece, Head(s)))

splitWhitespace(s) == SplitFrom(s, <<>>)

\* s.replace(/[-/()]/g, " ")
replacePunctuation(s) ==
    [i \in 1..Len(s) |-> IF s[i] \in {"-", "/", "(", ")"} THEN " " ELSE s[i]]

\* s.replace(/\$/g, "").replace(/\./g, "")
RECURSIVE removeChar(_, _)
removeChar(s, c) ==
    IF s = <<>> THEN <<>>
    ELSE IF Head(s) = c THEN removeChar(Tail(s), c)
         ELSE <<Head(s)>> \o removeChar(Tail(s), c)

\* s.startsWith(t)
startsWith(s, t) == Len(t) <= Len(s) /\ SubSeq(s, 1, Len(t)) = t

\* s.includes(t)
RECURSIVE includes(_, _)
includes(s, t) ==
    \/ startsWith(s, t)
    \/ s # <<>> /\ includes(Tail(s), t)

\* Number.parseInt(s, 10): white space, an optional sign, then the longest
\* run of digits; NaN (here the record's nan flag) when there is no digit.
RECURSIVE DigitsValue(_, _)
DigitsValue(s, acc) ==
    IF s # <<>> /\ IsDigit(Head(s)) THEN DigitsValue(Tail(s), 10 * acc + DigitVal(Head(s)))
    ELSE acc

parseInt(s) ==
    LET t == TrimStart(s)
        neg == t # <<>> /\ Head(t) = "-"
        u == IF t # <<>> /\ Head(t) \in {"-", "+"} THEN Tail(t) ELSE t
    IN  IF u # <<>> /\ IsDigit(Head(u))
        THEN [nan |-> FALSE, v |-> IF neg THEN 0 - DigitsValue(u, 0) ELSE DigitsValue(u, 0)]
        ELSE [nan |-> TRUE, v |-> 0]

\* parsePriceString without the removal of the dots
parsePriceStringKeepingDots(priceStr) ==
    IF priceStr.t = "number" THEN priceStr.n
    ELSE IF priceStr.s = <<>> THEN 0
    ELSE LET cleaned == trim(removeChar(priceStr.s, "$"))
             parsed == parseInt(cleaned)
         IN  IF parsed.nan THEN 0 ELSE parsed.v

parsePriceString(priceStr) ==
    IF priceStr.t = "number" THEN priceStr.n
    ELSE IF priceStr.s = <<>> THEN 0
    ELSE LET cleaned == trim(removeChar(removeChar(priceStr.s, "$"), "."))
             parsed == parseInt(cleaned)
         IN  IF parsed.nan THEN 0 ELSE parsed.v

\* const AUTO_REFRESH_MS = 0, and the value its comment gives as the example
\* of a build with polling ("ej: 10000 para 10s").
AUTO_REFRESH_MS == 0
AUTO_REFRESH_EXAMPLE_MS == 10000

----------------------------------------------------------------------------
(* Products *)

Product(sku, nombre, categoria, marca, nivelDeJuego, anio, precio3, stock) ==
    [sku |-> sku, nombre |-> nombre, categoria |-> categoria, marca |-> marca,
     nivelDeJuego |-> nivelDeJuego, anio |-> anio, precio3 |-> precio3, stock |-> stock]

\* normalizeStock without the isNaN test
normalizeStockKeepingNaN(stock) ==
    IF TypeofNumber(stock) THEN stock ELSE JsNum(0)

\* normalizeProducts: { ...p, stock: typeof p.stock === "number" && !isNaN(p.stock) ? p.stock : 0 }
normalizeStock(stock) ==
    IF TypeofNumber(stock) /\ ~IsNaN(stock) THEN stock ELSE JsNum(0)

normalizeProducts(productsData) ==
    [i \in 1..Len(productsData) |->
        [productsData[i] EXCEPT !.stock = normalizeStock(productsData[i].stock)]]

\* p.sku && p.sku.trim() !== ""
hasValidSku(p) == p.sku # <<>> /\ trim(p.sku) # <<>>

\* useCart().isMinQuantityAccessory(product)
isMinQuantityAccessory(p, accCats) == p.categoria \in accCats

getReferencePrice(p, accCats) ==
    LET basePrice == parsePriceString(p.precio3)
    IN  IF isMinQuantityAccessory(p, accCats) THEN basePrice * 2 ELSE basePrice

\* the comparator handed to sort
comparePrice(a, b, order, accCats) ==
    LET priceA == getReferencePrice(a, accCats)
        priceB == getReferencePrice(b, accCats)
    IN  IF order = "asc" THEN priceA - priceB ELSE priceB - priceA

\* Array.prototype.sort(cmp), which is stable: x goes after every element
\* that does not compare greater than it.
RECURSIVE insertSortedUnstable(_, _, _, _)
insertSortedUnstable(sorted, x, order, accCats) ==
    IF sorted = <<>> THEN <<x>>
    ELSE IF comparePrice(Head(sorted), x, order, accCats) < 0
         THEN <<Head(sorted)>> \o insertSortedUnstable(Tail(sorted), x, order, accCats)
         ELSE <<x>> \o sorted

RECURSIVE insertSorted(_, _, _, _)
insertSorted(sorted, x, order, accCats) ==
    IF sorted = <<>> THEN <<x>>
    ELSE IF comparePrice(Head(sorted), x, order, accCats) <= 0
         THEN <<Head(sorted)>> \o insertSorted(Tail(sorted), x, order, accCats)
         ELSE <<x>> \o sorted

RECURSIVE sortFrom(_, _, _, _)
sortFrom(sorted, rest, order, accCats) ==
    IF rest = <<>> THEN sorted
    ELSE sortFrom(insertSorted(sorted, Head(rest), order, accCats), Tail(rest), order, accCats)

sortByPrice(s, order, accCats) == sortFrom(<<>>, s, order, accCats)

\* the search predicate with includes for startsWith on the name's words
matchesTermAnywhereInName(p, term) ==
    LET normalizedName == replacePunctuation(toLowerCase(p.nombre))
        nameWords == splitWhitespace(normalizedName)
        normalizedSku == toLowerCase(p.sku)
        normalizedNivel == toLowerCase(p.nivelDeJuego)
        normalizedAnio == toLowerCase(p.anio)
    IN  \/ includes(normalizedSku, term)
        \/ \E w \in 1..Len(nameWords) : includes(nameWords[w], term)
        \/ includes(normalizedNivel, term)
        \/ includes(normalizedAnio, term)

\* the search predicate of stage 5, for one product
matchesTerm(p, term) ==
    LET normalizedName == replacePunctuation(toLowerCase(p.nombre))
        nameWords == splitWhitespace(normalizedName)
        normalizedSku == toLowerCase(p.sku)
        normalizedNivel == toLowerCase(p.nivelDeJuego)
        normalizedAnio == toLowerCase(p.anio)
    IN  \/ includes(normalizedSku, term)
        \/ \E w \in 1..Len(nameWords) : startsWith(nameWords[w], term)
        \/ includes(normalizedNivel, term)
        \/ includes(normalizedAnio, term)

matchesSearch(p, search) ==
    LET cleanSearch == trim(toLowerCase(search))
        searchTerms == splitWhitespace(cleanSearch)
    IN  \A t \in 1..Len(searchTerms) : matchesTerm(p, searchTerms[t])

\* stage 2's predicate with >= for >
inStockOrZero(p) ==
    LET stockNum == IF TypeofNumber(p.stock) THEN p.stock ELSE JsNum(0)
    IN  GreaterThanZero(stockNum) \/ stockNum = JsNum(0)

\* stage 2's predicate
inStock(p) ==
    LET stockNum == IF TypeofNumber(p.stock) THEN p.stock ELSE JsNum(0)
    IN  GreaterThanZero(stockNum)

\* stages 1 to 5 of filteredProducts: the candidates handed to the sort
candidates(prods, search, category, brand, showOOS) ==
    LET s1 == SelectSeq(prods, hasValidSku)
        s2 == IF ~showOOS THEN SelectSeq(s1, inStock) ELSE s1
        s3 == IF category # "Todos" THEN SelectSeq(s2, LAMBDA p : p.categoria = category) ELSE s2
        s4 == IF brand # "Todos" THEN SelectSeq(s3, LAMBDA p : p.marca = brand) ELSE s3
        s5 == IF search # <<>> THEN SelectSeq(s4, LAMBDA p : matchesSearch(p, search)) ELSE s4
    IN  s5

\* filteredProducts sorting whatever the price select says
filteredProductsAlwaysSorted(prods, search, category, brand, showOOS, order, accCats) ==
    sortByPrice(candidates(prods, search, category, brand, showOOS), order, accCats)

filteredProductsOf(prods, search, category, brand, showOOS, order, accCats) ==
    LET c == candidates(prods, search, category, brand, showOOS)
    IN  IF order # "default" THEN sortByPrice(c, order, accCats) ELSE c

filteredProducts ==
    filteredProductsOf(products, searchTerm, selectedCategory, selectedBrand,
                       showOutOfStock, priceSort, accessoryCategories)

\* [...new Set(arr)]: the distinct values in first-seen order
RECURSIVE dedupeFrom(_, _)
dedupeFrom(seen, rest) ==
    IF rest = <<>> THEN seen
    ELSE IF \E i \in 1..Len(seen) : seen[i] = Head(rest)
         THEN dedupeFrom(seen, Tail(rest))
         ELSE dedupeFrom(Append(seen, Head(rest)), Tail(rest))

\* a Set that keeps a value's last occurrence instead of its first
RECURSIVE dedupeKeepingLast(_)
dedupeKeepingLast(s) ==
    IF s = <<>> THEN <<>>
    ELSE IF \E i \in 2..Len(s) : s[i] = Head(s)
         THEN dedupeKeepingLast(Tail(s))
         ELSE <<Head(s)>> \o dedupeKeepingLast(Tail(s))

dedupe(s) == dedupeFrom(<<>>, s)

categoriesOf(prods) ==
    LET valid == SelectSeq(prods, hasValidSku)
    IN  <<"Todos">> \o dedupe([i \in 1..Len(valid) |-> valid[i].categoria])

\* availableBrands without the category branch
availableBrandsUnscoped(prods, category) ==
    LET scoped == SelectSeq(prods, hasValidSku)
        marcas == [i \in 1..Len(scoped) |-> scoped[i].marca]
    IN  <<"Todos">> \o dedupe(SelectSeq(marcas, LAMBDA m : m # ""))

availableBrandsOf(prods, category) ==
    LET scoped == IF category # "Todos"
                  THEN SelectSeq(prods, LAMBDA p : p.categoria = category /\ hasValidSku(p))
                  ELSE SelectSeq(prods, hasValidSku)
        marcas == [i \in 1..Len(scoped) |-> scoped[i].marca]
    IN  <<"Todos">> \o dedupe(SelectSeq(marcas, LAMBDA m : m # ""))

categories == categoriesOf(products)
availableBrands == availableBrandsOf(products, selectedCategory)

----------------------------------------------------------------------------
(* What the data source can return *)

RawStocks == {JsNum(5), JsNum(0 - 3), JsNaN, JsInf, JsNegInf, JsStr, JsUndefined}

RawRow(stock) ==
    Product(<<"a", "1">>, <<"P", "r", "o">>, "Paletas", "X", <<"a">>, <<"2">>,
            PriceStr(<<"$", "5">>), stock)

RawPool == {RawRow(stock) : stock \in RawStocks}

RawSnapshots == SeqsUpTo(RawPool, MaxRows)

----------------------------------------------------------------------------
(* The component's state after the first render, before the effect runs *)

InitState ==
    /\ products = <<>>
    /\ searchTerm = <<>>
    /\ selectedCategory = "Todos"
    /\ selectedBrand = "Todos"
    /\ loading = TRUE
    /\ showOutOfStock = FALSE
    /\ priceSort = "default"

InitEffect ==
    /\ phase = "init"
    /\ cancelled = FALSE
    /\ intervalId = 0
    /\ calls = <<>>
    /\ fetched = <<>>
    /\ log = <<>>

\* AUTO_REFRESH_MS is fixed when the page is built: 0 as committed (no
\* polling, a single loadData call) or a positive period, for which the
\* effect installs the interval.
Init ==
    /\ InitState
    /\ InitEffect
    /\ accessoryCategories = {}
    /\ autoRefreshMs \in {AUTO_REFRESH_MS, AUTO_REFRESH_EXAMPLE_MS}

----------------------------------------------------------------------------
(* The load effect *)

\* loadData(isBackgroundRefresh) up to its await: the call is in flight
StartCall(isBackgroundRefresh) ==
    [bg |-> isBackgroundRefresh, st |-> "pending"]

\* The effect body: loadData(false), whose first statement is
\* setLoading(true), then setInterval when AUTO_REFRESH_MS > 0.
RunEffect ==
    /\ phase = "init"
    /\ phase' = "mounted"
    /\ cancelled' = FALSE
    /\ loading' = TRUE
    /\ calls' = Append(calls, StartCall(FALSE))
    /\ intervalId' = IF autoRefreshMs # 0 /\ autoRefreshMs > 0 THEN 1 ELSE 0
    /\ UNCHANGED <<products, filterVars, accessoryCategories, autoRefreshMs, fetched, log>>

\* The interval callback: void loadData(true)
IntervalTick ==
    /\ intervalId # 0
    /\ Len(calls) < MaxCalls
    /\ calls' = Append(calls, StartCall(TRUE))
    /\ UNCHANGED <<products, loading, filterVars, accessoryCategories,
                   autoRefreshMs, phase, cancelled, intervalId, fetched, log>>

\* a try block without the cancelled test
FetchResolveIgnoringCancelled(i, productsData) ==
    /\ calls[i].st = "pending"
    /\ LET normalized == normalizeProducts(productsData)
       IN  /\ products' = normalized
           /\ loading' = IF ~calls[i].bg THEN FALSE ELSE loading
           /\ fetched' = productsData
           /\ calls' = [calls EXCEPT ![i] = [@ EXCEPT !.st = "resolved"]]
           /\ log' = Append(log, [call |-> i, ok |-> TRUE, applied |-> TRUE])
    /\ UNCHANGED <<filterVars, accessoryCategories, autoRefreshMs, phase, cancelled, intervalId>>

\* fetchProductsFromSheets() resolves with productsData: the rest of the try block
FetchResolve(i, productsData) ==
    /\ calls[i].st = "pending"
    /\ LET normalized == normalizeProducts(productsData)
       IN  /\ products' = IF ~cancelled THEN normalized ELSE products
           /\ loading' = IF ~cancelled /\ ~calls[i].bg THEN FALSE ELSE loading
           /\ fetched' = IF ~cancelled THEN productsData ELSE fetched
           /\ calls' = [calls EXCEPT ![i] = [@ EXCEPT !.st = "resolved"]]
           /\ log' = Append(log, [call |-> i, ok |-> TRUE, applied |-> ~cancelled])
    /\ UNCHANGED <<filterVars, accessoryCategories, autoRefreshMs, phase, cancelled, intervalId>>

\* a catch block that clears the list
FetchRejectClearing(i) ==
    /\ calls[i].st = "pending"
    /\ products' = <<>>
    /\ loading' = IF ~cancelled /\ ~calls[i].bg THEN FALSE ELSE loading
    /\ calls' = [calls EXCEPT ![i] = [@ EXCEPT !.st = "rejected"]]
    /\ log' = Append(log, [call |-> i, ok |-> FALSE, applied |-> FALSE])
    /\ UNCHANGED <<filterVars, accessoryCategories, autoRefreshMs,
                   phase, cancelled, intervalId, fetched>>

\* fetchProductsFromSheets() rejects: the catch block
FetchReject(i) ==
    /\ calls[i].st = "pending"
    /\ loading' = IF ~cancelled /\ ~calls[i].bg THEN FALSE ELSE loading
    /\ calls' = [calls EXCEPT ![i] = [@ EXCEPT !.st = "rejected"]]
    /\ log' = Append(log, [call |-> i, ok |-> FALSE, applied |-> FALSE])
    /\ UNCHANGED <<products, filterVars, accessoryCategories, autoRefreshMs,
                   phase, cancelled, intervalId, fetched>>

\* The effect's cleanup
Cleanup ==
    /\ phase = "mounted"
    /\ phase' = "unmounted"
    /\ cancelled' = TRUE
    /\ intervalId' = 0
    /\ UNCHANGED <<products, loading, filterVars, accessoryCategories,
                   autoRefreshMs, calls, fetched, log>>

Resolve == \E i \in 1..Len(calls) : \E productsData \in RawSnapshots : FetchResolve(i, productsData)
Reject == \E i \in 1..Len(calls) : FetchReject(i)

Next ==
    \/ RunEffect
    \/ IntervalTick
    \/ Resolve
    \/ Reject
    \/ Cleanup

Spec == Init /\ [][Next]_vars

----------------------------------------------------------------------------
(* The filter controls *)

\* the logo button's onClick
resetFilters ==
    /\ searchTerm' = <<>>
    /\ selectedCategory' = "Todos"
    /\ selectedBrand' = "Todos"
    /\ showOutOfStock' = FALSE
    /\ priceSort' = "default"
    /\ UNCHANGED <<products, loading, accessoryCategories, effectVars>>

\* the two stock buttons' onClick
ToggleShowOutOfStock ==
    /\ showOutOfStock' = ~showOutOfStock
    /\ UNCHANGED <<products, loading, accessoryCategories, effectVars,
                   searchTerm, selectedCategory, selectedBrand, priceSort>>

\* the search input's onChange
SetSearchTerm(text) ==
    /\ searchTerm' = text
    /\ UNCHANGED <<products, loading, accessoryCategories, effectVars,
                   selectedCategory, selectedBrand, showOutOfStock, priceSort>>

\* a category onChange that leaves the selected brand alone
SelectCategoryKeepingBrand(cat) ==
    /\ cat \in Range(categories)
    /\ selectedCategory' = cat
    /\ searchTerm' = <<>>
    /\ UNCHANGED <<products, loading, accessoryCategories, effectVars,
                   selectedBrand, showOutOfStock, priceSort>>

\* the category select's onChange; its options are the categories list
SelectCategory(cat) ==
    /\ cat \in Range(categories)
    /\ selectedCategory' = cat
    /\ selectedBrand' = "Todos"
    /\ searchTerm' = <<>>
    /\ UNCHANGED <<products, loading, accessoryCategories, effectVars,
                   showOutOfStock, priceSort>>

\* the brand select's onChange; its options are the availableBrands list
SelectBrand(brand) ==
    /\ brand \in Range(availableBrands)
    /\ selectedBrand' = brand
    /\ searchTerm' = <<>>
    /\ UNCHANGED <<products, loading, accessoryCategories, effectVars,
                   selectedCategory, showOutOfStock, priceSort>>

\* the price select's onChange
SetPriceSort(order) ==
    /\ priceSort' = order
    /\ UNCHANGED <<products, loading, accessoryCategories, effectVars,
                   searchTerm, selectedCategory, selectedBrand, showOutOfStock>>

PriceSortOrders == {"default", "asc", "desc"}

----------------------------------------------------------------------------
(* The filter controls over a loaded list: SpecFilter *)

CatalogPool ==
    { Product(<<"a", "1">>, <<"P", "r", "o">>, "Paletas", "X", <<"a">>, <<"2">>,
              PriceStr(<<"$", "2", "0">>), JsNum(5)),
      Product(<<"b", "2">>, <<"M", "i", "x">>, "Pelotas", "Y", <<>>, <<"2">>,
              PriceStr(<<"$", "1", "0">>), JsNum(0)),
      Product(<<" ">>, <<"r", "o", "t", "o">>, "Rotos", "Z", <<>>, <<>>,
              PriceStr(<<"$", "5">>), JsNum(3)),
      Product(<<"c", "3">>, <<"P", "r", "o", "-", "X">>, "Paletas", "", <<"a">>, <<>>,
              PriceStr(<<"x">>), JsInf),
      Product(<<"d", "4">>, <<"T">>, "Todos", "Todos", <<>>, <<"2">>,
              PriceStr(<<"$", "2", "0">>), JsNum(2)),
      Product(<<"e", "5">>, <<"M", "a", "x">>, "Pelotas", "X", <<>>, <<>>,
              PriceStr(<<"$", "1", "0">>), JsNum(0 - 3)) }

CatalogLists == SeqsUpTo(CatalogPool, MaxProducts)

FilterSearchTexts == {<<>>, <<"p", "r">>}

\* The state after the first load resolved with list prods.
Loaded(prods) ==
    /\ products = normalizeProducts(prods)
    /\ loading = FALSE
    /\ autoRefreshMs = AUTO_REFRESH_MS
    /\ phase = "mounted"
    /\ cancelled = FALSE
    /\ intervalId = 0
    /\ calls = <<[bg |-> FALSE, st |-> "resolved"]>>
    /\ fetched = prods
    /\ log = <<[call |-> 1, ok |-> TRUE, applied |-> TRUE]>>

DefaultFilters ==
    /\ searchTerm = <<>>
    /\ selectedCategory = "Todos"
    /\ selectedBrand = "Todos"
    /\ showOutOfStock = FALSE
    /\ priceSort = "default"

InitFilter ==
    /\ \E prods \in CatalogLists : Loaded(prods)
    /\ DefaultFilters
    /\ accessoryCategories \in {{}, {"Pelotas"}}

NextFilter ==
    \/ resetFilters
    \/ ToggleShowOutOfStock
    \/ \E text \in FilterSearchTexts : SetSearchTerm(text)
    \/ \E cat \in Range(categories) : SelectCategory(cat)
    \/ \E brand \in Range(availableBrands) : SelectBrand(brand)
    \/ \E order \in PriceSortOrders : SetPriceSort(order)

SpecFilter == InitFilter /\ [][NextFilter]_vars

----------------------------------------------------------------------------
(* Typing into the search box over one loaded product: SpecSearch *)

SearchAlphabet == {"a", "b", "B", " ", "-"}

SearchTexts == SeqsUpTo(SearchAlphabet, MaxSearchLen)

SearchSkus == {<<"a", "B">>, <<"b", "-">>}
SearchNames == {<<>>, <<"B", "a", "-", "a", "b">>, <<"a", "(", "b", ")", " ">>, <<"b", "b", "a">>}
SearchNiveles == {<<>>, <<"A", "a">>}
SearchAnios == {<<>>, <<"a", "a">>}

SearchProducts ==
    { Product(sku, nombre, "Paletas", "X", nivel, anio, PriceStr(<<"$", "5">>), JsNum(5)) :
        sku \in SearchSkus, nombre \in SearchNames,
        nivel \in SearchNiveles, anio \in SearchAnios }

InitSearch ==
    /\ \E p \in SearchProducts : Loaded(<<p>>)
    /\ DefaultFilters
    /\ accessoryCategories = {}

NextSearch ==
    \/ \E text \in SearchTexts : SetSearchTerm(text)
    \/ resetFilters

SpecSearch == InitSearch /\ [][NextSearch]_vars

----------------------------------------------------------------------------
(* Sorting one loaded product by price: SpecPrice *)

PriceAlphabet == {"$", ".", "5", "0", " ", "x", "-"}

PriceInputs ==
    {PriceStr(s) : s \in SeqsUpTo(PriceAlphabet, MaxPriceLen)}
        \cup {PriceNum(0), PriceNum(500)}

PricedProduct(categoria, precio3) ==
    Product(<<"a", "1">>, <<"P", "r", "o">>, categoria, "X", <<>>, <<>>, precio3, JsNum(5))

InitPrice ==
    /\ \E categoria \in {"Paletas", "Pelotas"} : \E precio3 \in PriceInputs :
          Loaded(<<PricedProduct(categoria, precio3)>>)
    /\ DefaultFilters
    /\ accessoryCategories \in {{}, {"Pelotas"}}

NextPrice ==
    \/ \E order \in PriceSortOrders : SetPriceSort(order)
    \/ resetFilters

SpecPrice == InitPrice /\ [][NextPrice]_vars

----------------------------------------------------------------------------
(* Claims about the load effect, checked under Spec *)

AppliedCalls == SelectSeq(log, LAMBDA e : e.applied)

C3_StockNonNegativeFinite ==
    \A k \in 1..Len(products) :
        products[k].stock.kind = "number" /\ products[k].stock.v >= 0

\* C3 as amended: products is, row by row, the fetched list with only the
\* stock replaced: a number other than NaN (negative and infinite ones
\* included) is kept, and NaN, a non-number or an absent value becomes 0; so
\* every stock in products is a number other than NaN.
C3_NormalizedStock ==
    /\ Len(products) = Len(fetched)
    /\ \A k \in 1..Len(fetched) :
          LET in == fetched[k]
              out == products[k]
          IN  /\ [out EXCEPT !.stock = in.stock] = in
              /\ in.stock.kind \in {"number", "Infinity", "-Infinity"}
                    => out.stock = in.stock
              /\ in.stock.kind \in {"NaN", "string", "undefined"}
                    => out.stock = JsNum(0)
              /\ out.stock.kind \in {"number", "Infinity", "-Infinity"}

C3_Witness ==
    /\ Len(fetched) = 2
    /\ fetched[1].stock = JsNum(0 - 3) /\ products[1].stock = JsNum(0 - 3)
    /\ fetched[2].stock = JsUndefined /\ products[2].stock = JsNum(0)
    /\ \E e \in 1..Len(log) : log[e].applied

\* C4: a step in which a loadData call fails leaves products, and with it
\* the filtered result and both facet lists, as they were.
C4_FailureRetainsSnapshot ==
    [][(\E i \in 1..Len(calls) : calls[i].st = "pending" /\ calls'[i].st = "rejected")
          => /\ products' = products
             /\ filteredProducts' = filteredProducts
             /\ categories' = categories
             /\ availableBrands' = availableBrands]_vars

C4_Witness ==
    /\ products # <<>>
    /\ \E j, k \in 1..Len(log) : j < k /\ log[j].applied /\ ~log[k].ok
    /\ filteredProducts # <<>>

----------------------------------------------------------------------------
(* Claims about the filtered result and the facet lists, checked under
   SpecFilter *)

\* Stated on the record, not through the model's predicates
StockPositive(p) == p.stock.kind = "Infinity" \/ (p.stock.kind = "number" /\ p.stock.v >= 1)
SkuNotBlank(p) == \E i \in 1..Len(p.sku) : p.sku[i] # " " /\ p.sku[i] # "\t"

ResultWithStockFlag(flag) ==
    filteredProductsOf(products, searchTerm, selectedCategory, selectedBrand,
                       flag, priceSort, accessoryCategories)

PassesOtherStages(p) ==
    /\ SkuNotBlank(p)
    /\ selectedCategory # "Todos" => p.categoria = selectedCategory
    /\ selectedBrand # "Todos" => p.marca = selectedBrand
    /\ searchTerm # <<>> => matchesSearch(p, searchTerm)

\* C1: with showOutOfStock off every product of the filtered result has
\* stock > 0; with it on no product is left out for its stock, so the result
\* with the flag off is contained in the result with the flag on.
C1_StockFilter ==
    /\ ~showOutOfStock =>
          \A i \in 1..Len(filteredProducts) : StockPositive(filteredProducts[i])
    /\ \A p \in Range(products) :
          /\ Count(ResultWithStockFlag(TRUE), p)
                = (IF PassesOtherStages(p) THEN Count(products, p) ELSE 0)
          /\ Count(ResultWithStockFlag(FALSE), p) <= Count(ResultWithStockFlag(TRUE), p)

C1_Witness ==
    /\ showOutOfStock
    /\ \E i \in 1..Len(filteredProducts) : ~StockPositive(filteredProducts[i])
    /\ ResultWithStockFlag(FALSE) # <<>>
    /\ Len(ResultWithStockFlag(FALSE)) < Len(filteredProducts)

RefPrice(p) == getReferencePrice(p, accessoryCategories)

CurrentCandidates ==
    candidates(products, searchTerm, selectedCategory, selectedBrand, showOutOfStock)

WithPrice(s, v) == SelectSeq(s, LAMBDA p : RefPrice(p) = v)

\* C6: under "asc" ("desc") the result lists the candidates by non-decreasing
\* (non-increasing) reference price, the candidates of one price in the order
\* they have among the candidates; sorting the result again in the same
\* direction changes nothing; and the ascending and the descending result
\* order two items of different price oppositely.
C6_StableSort ==
    LET c == CurrentCandidates
        asc == sortByPrice(c, "asc", accessoryCategories)
        desc == sortByPrice(c, "desc", accessoryCategories)
        prices == {RefPrice(c[i]) : i \in 1..Len(c)}
    IN  /\ priceSort = "asc" => filteredProducts = asc
        /\ priceSort = "desc" => filteredProducts = desc
        /\ Len(asc) = Len(c) /\ Len(desc) = Len(c)
        /\ \A i, j \in 1..Len(c) :
              i < j => /\ RefPrice(asc[i]) <= RefPrice(asc[j])
                       /\ RefPrice(desc[i]) >= RefPrice(desc[j])
        /\ \A v \in prices : WithPrice(asc, v) = WithPrice(c, v)
                             /\ WithPrice(desc, v) = WithPrice(c, v)
        /\ sortByPrice(asc, "asc", accessoryCategories) = asc
        /\ sortByPrice(desc, "desc", accessoryCategories) = desc
        /\ \A v, w \in prices :
              v < w => /\ SelectSeq(asc, LAMBDA p : RefPrice(p) \in {v, w})
                              = WithPrice(c, v) \o WithPrice(c, w)
                       /\ SelectSeq(desc, LAMBDA p : RefPrice(p) \in {v, w})
                              = WithPrice(c, w) \o WithPrice(c, v)

C6_Witness ==
    /\ priceSort = "desc"
    /\ Len(filteredProducts) = 3
    /\ filteredProducts # CurrentCandidates
    /\ \E i, j \in 1..3 :
          /\ i < j
          /\ filteredProducts[i] # filteredProducts[j]
          /\ RefPrice(filteredProducts[i]) = RefPrice(filteredProducts[j])
    /\ RefPrice(filteredProducts[1]) > RefPrice(filteredProducts[3])

BrandsInScope ==
    {p.marca : p \in {q \in Range(products) :
                        /\ SkuNotBlank(q)
                        /\ q.marca # ""
                        /\ selectedCategory # "Todos" => q.categoria = selectedCategory}}

AllBrands == {p.marca : p \in {q \in Range(products) : SkuNotBlank(q) /\ q.marca # ""}}

\* C8: after the sentinel the brand list holds exactly the non-empty brands
\* of the valid-SKU products of the selected category, or of all valid-SKU
\* products when the sentinel is selected, whatever their stock and whatever
\* showOutOfStock is.
C8_BrandFacet ==
    /\ Head(availableBrands) = "Todos"
    /\ Range(Tail(availableBrands)) = BrandsInScope
    /\ selectedCategory = "Todos" => Range(Tail(availableBrands)) = AllBrands

C8_Witness ==
    /\ selectedCategory # "Todos"
    /\ ~showOutOfStock
    /\ BrandsInScope # {}
    /\ BrandsInScope # AllBrands
    /\ \E b \in BrandsInScope :
          \A p \in Range(products) :
              (p.marca = b /\ p.categoria = selectedCategory) => ~StockPositive(p)

NoValueTwice(list) == \A i, j \in 1..Len(list) : i < j => list[i] # list[j]

\* position of the first occurrence of v in s
FirstSeen(s, v) == CHOOSE i \in 1..Len(s) : s[i] = v /\ \A k \in 1..(i - 1) : s[k] # v

\* list is the distinct values of source in first-seen order
FirstSeenOrder(list, source) ==
    /\ NoValueTwice(list)
    /\ Range(list) = Range(source)
    /\ \A i, j \in 1..Len(list) :
          i < j => FirstSeen(source, list[i]) < FirstSeen(source, list[j])

ValidProducts == SelectSeq(products, SkuNotBlank)

CategoryColumn == [i \in 1..Len(ValidProducts) |-> ValidProducts[i].categoria]

BrandColumn ==
    LET scoped == SelectSeq(ValidProducts,
                            LAMBDA p : /\ p.marca # ""
                                       /\ selectedCategory # "Todos"
                                             => p.categoria = selectedCategory)
    IN  [i \in 1..Len(scoped) |-> scoped[i].marca]

\* C9 as stated: no value, the sentinel included, occurs twice in a facet list.
C9_NoValueTwice ==
    /\ Head(categories) = "Todos" /\ NoValueTwice(categories)
    /\ Head(availableBrands) = "Todos" /\ NoValueTwice(availableBrands)

\* C9 as amended: each facet list is the sentinel followed by the distinct
\* values in first-seen order, so no value occurs twice after the sentinel;
\* the sentinel occurs a second time exactly when a product in the list's
\* scope has the sentinel string as its category (brand).
C9_FacetLists ==
    /\ Head(categories) = "Todos"
    /\ FirstSeenOrder(Tail(categories), CategoryColumn)
    /\ ~NoValueTwice(categories) <=> "Todos" \in Range(CategoryColumn)
    /\ Head(availableBrands) = "Todos"
    /\ FirstSeenOrder(Tail(availableBrands), BrandColumn)
    /\ ~NoValueTwice(availableBrands) <=> "Todos" \in Range(BrandColumn)

C9_Witness ==
    /\ selectedCategory = "Paletas"
    /\ Len(categories) = 3
    /\ categories[3] = "Todos"
    /\ Len(ValidProducts) = 3
    /\ CategoryColumn[1] = CategoryColumn[3]
    /\ Len(availableBrands) = 2

RECURSIVE IsSubsequence(_, _)
IsSubsequence(s, t) ==
    \/ s = <<>>
    \/ /\ t # <<>>
       /\ IF Head(s) = Head(t) THEN IsSubsequence(Tail(s), Tail(t))
          ELSE IsSubsequence(s, Tail(t))

\* C10: the filtered result holds only products of the list, none more often
\* than the list does, and under price sort "default" it is a subsequence of
\* the list.
C10_ResultFromList ==
    /\ \A i \in 1..Len(filteredProducts) :
          /\ filteredProducts[i] \in Range(products)
          /\ Count(filteredProducts, filteredProducts[i]) <= Count(products, filteredProducts[i])
    /\ priceSort = "default" => IsSubsequence(filteredProducts, products)

C10_Witness ==
    /\ priceSort = "default"
    /\ selectedCategory # "Todos"
    /\ Len(filteredProducts) = 2
    /\ Len(products) = 3
    /\ filteredProducts[1] # filteredProducts[2]
    /\ RefPrice(filteredProducts[1]) < RefPrice(filteredProducts[2])

----------------------------------------------------------------------------
(* Claim about the search stage, checked under SpecSearch *)

LowerText(s) == [i \in 1..Len(s) |-> LowerChar(s[i])]

\* the maximal runs of s without a character of seps, as pairs <<first, last>>
Runs(s, seps) ==
    {r \in (1..Len(s)) \X (1..Len(s)) :
        /\ r[1] <= r[2]
        /\ \A i \in r[1]..r[2] : s[i] \notin seps
        /\ r[1] = 1 \/ s[r[1] - 1] \in seps
        /\ r[2] = Len(s) \/ s[r[2] + 1] \in seps}

Spaces == {" ", "\t"}
NameSeparators == Spaces \cup {"-", "/", "(", ")"}

\* the white-space-separated terms of the lower-cased search text
Terms(text) ==
    LET s == LowerText(text) IN {SubSeq(s, r[1], r[2]) : r \in Runs(s, Spaces)}

Substring(t, f) ==
    \E k \in 0..(Len(f) - Len(t)) : \A i \in 1..Len(t) : f[k + i] = t[i]

PrefixOfNameWord(t, name) ==
    LET s == LowerText(name)
    IN  \E r \in Runs(s, NameSeparators) :
            /\ Len(t) <= r[2] - r[1] + 1
            /\ \A i \in 1..Len(t) : s[r[1] + i - 1] = t[i]

TermMatches(p, t) ==
    \/ Substring(t, LowerText(p.sku))
    \/ PrefixOfNameWord(t, p.nombre)
    \/ Substring(t, LowerText(p.nivelDeJuego))
    \/ Substring(t, LowerText(p.anio))

\* C5: with a non-empty search text a product that passed stages 1 to 4 is in
\* the result iff every term of the search text matches its SKU (substring),
\* a word of its name (prefix), its game level (substring) or its year
\* (substring).
C5_SearchStage ==
    searchTerm # <<>> =>
        \A p \in Range(candidates(products, <<>>, selectedCategory, selectedBrand,
                                  showOutOfStock)) :
            (p \in Range(filteredProducts))
                <=> \A t \in Terms(searchTerm) : TermMatches(p, t)

C5_Witness ==
    /\ filteredProducts # <<>>
    /\ \E t1, t2 \in Terms(searchTerm) :
          /\ Substring(t1, LowerText(products[1].nivelDeJuego))
          /\ ~Substring(t1, LowerText(products[1].sku))
          /\ ~Substring(t1, LowerText(products[1].anio))
          /\ ~PrefixOfNameWord(t1, products[1].nombre)
          /\ Substring(t2, LowerText(products[1].sku))
          /\ ~Substring(t2, LowerText(products[1].nivelDeJuego))
          /\ ~Substring(t2, LowerText(products[1].anio))
          /\ ~PrefixOfNameWord(t2, products[1].nombre)

----------------------------------------------------------------------------
(* Claim about the reference price, checked under SpecPrice *)

RECURSIVE Pow10(_)
Pow10(n) == IF n = 0 THEN 1 ELSE 10 * Pow10(n - 1)

RECURSIVE DecimalValue(_)
DecimalValue(d) ==
    IF d = <<>> THEN 0 ELSE DigitVal(Head(d)) * Pow10(Len(d) - 1) + DecimalValue(Tail(d))

\* the integer a raw price stands for: the number itself, or, for a string
\* without its "$" and "." characters and the white space around it, the
\* value of its leading digits (after an optional sign); 0 without them
ParsedInteger(price) ==
    IF price.t = "number" THEN price.n
    ELSE LET kept == SelectSeq(price.s, LAMBDA c : c \notin {"$", "."})
             first == IF \E i \in 1..Len(kept) : kept[i] \notin Spaces
                      THEN CHOOSE i \in 1..Len(kept) :
                              kept[i] \notin Spaces /\ \A k \in 1..(i - 1) : kept[k] \in Spaces
                      ELSE Len(kept) + 1
             signed == first <= Len(kept) /\ kept[first] \in {"-", "+"}
             start == IF signed THEN first + 1 ELSE first
             ends == {j \in (start - 1)..Len(kept) : \A k \in start..j : IsDigit(kept[k])}
             last == CHOOSE j \in ends : \A k \in ends : k <= j
             magnitude == DecimalValue(SubSeq(kept, start, last))
         IN  IF signed /\ kept[first] = "-" THEN 0 - magnitude ELSE magnitude

\* C7: the reference price is the integer parsed from the raw price, doubled
\* exactly when isMinQuantityAccessory holds of the product; "$500" gives
\* 1000 for a flagged product and 500 for another.
C7_ReferencePrice ==
    \A i \in 1..Len(products) :
        LET p == products[i]
            flagged == p.categoria \in accessoryCategories
        IN  /\ RefPrice(p) = (IF flagged THEN 2 * ParsedInteger(p.precio3)
                              ELSE ParsedInteger(p.precio3))
            /\ p.precio3 = PriceStr(<<"$", "5", "0", "0">>)
                  => RefPrice(p) = (IF flagged THEN 1000 ELSE 500)

C7_Witness ==
    /\ priceSort = "asc"
    /\ products[1].precio3 = PriceStr(<<"$", "5", ".", "0">>)
    /\ products[1].categoria \in accessoryCategories
    /\ RefPrice(products[1]) = 100

----------------------------------------------------------------------------
(* Claim about the filter controls over a fixed list, checked under
   SpecFilter *)

\* C11: the selected brand is always one of the brands currently offered; a
\* step that changes the selected category leaves the selected brand at the
\* sentinel and the search text empty, and a step that changes the selected
\* brand leaves the search text empty.
C11_SelectedBrandOffered ==
    /\ [](selectedBrand \in Range(availableBrands))
    /\ [][/\ selectedCategory' # selectedCategory
                => selectedBrand' = "Todos" /\ searchTerm' = <<>>
          /\ selectedBrand' # selectedBrand => searchTerm' = <<>>]_vars

\* a brand of one category is selected while another category on offer does
\* not have it
C11_Witness ==
    /\ selectedCategory # "Todos"
    /\ selectedBrand # "Todos"
    /\ selectedBrand \in Range(availableBrands)
    /\ \E cat \in Range(categories) :
          selectedBrand \notin Range(availableBrandsOf(products, cat))

----------------------------------------------------------------------------
(* Claim about cancellation and background refreshes, checked under Spec *)

\* call i completes (resolves or rejects) in this step
Completes(i) == calls[i].st = "pending" /\ calls'[i].st # "pending"

\* C12: a loadData call that completes after the cleanup ran changes neither
\* products nor loading, whether it succeeds or fails; and a background
\* refresh changes loading neither when it starts nor when it completes.
C12_CancelledAndBackground ==
    [][/\ \A i \in 1..Len(calls) :
             Completes(i) =>
                /\ cancelled => products' = products /\ loading' = loading
                /\ calls[i].bg => loading' = loading
       /\ (Len(calls') > Len(calls) /\ calls'[Len(calls')].bg) => loading' = loading]_vars

\* after the cleanup, the first load failed and a background refresh
\* resolved, and the list and the spinner are as the cleanup found them
C12_Witness ==
    /\ cancelled
    /\ Len(calls) = 2
    /\ calls[2].bg
    /\ loading
    /\ products = <<>>
    /\ \E e, f \in 1..Len(log) :
          /\ log[e].call = 1 /\ ~log[e].ok
          /\ log[f].call = 2 /\ log[f].ok /\ ~log[f].applied

====
